---- MODULE Spec2Model ----
(***************************************************************************)
(* Device-identifier lookup API (src/device_lookup_api.py and its two      *)
(* near-identical siblings).  A request to /lookup/<vendor>?tag=<raw> is   *)
(* upper-cased, checked for emptiness and against the vendor's regex, and  *)
(* handed to the vendor's resolver, which either infers a model name from  *)
(* a prefix table or fetches a vendor page and extracts a name from it.    *)
(*                                                                         *)
(* Text values (identifiers, model names, diagnostics, page texts) are     *)
(* sequences of pieces: identifiers are sequences of one-character         *)
(* strings, page texts are sequences of words and whitespace pieces,       *)
(* fixed messages are one-piece sequences.  The empty string is << >>.     *)
(***************************************************************************)
EXTENDS Integers, Sequences, FiniteSets, TLC

(***************************************************************************)
(* Bounds of the model.                                                    *)
(***************************************************************************)
\* longest raw identifier built (22 is Acer's serial length, 23 adds a
\* trailing character to it)
MaxLen == 23
\* number of request slots (requests that can be in flight together)
MaxSlots == 2

(***************************************************************************)
(* Characters and Python string operations.                                *)
(***************************************************************************)
Lower26 == <<"a","b","c","d","e","f","g","h","i","j","k","l","m",
             "n","o","p","q","r","s","t","u","v","w","x","y","z">>
Upper26 == <<"A","B","C","D","E","F","G","H","I","J","K","L","M",
             "N","O","P","Q","R","S","T","U","V","W","X","Y","Z">>

AsciiLower == {Lower26[i] : i \in 1..26}
AsciiUpper == {Upper26[i] : i \in 1..26}
AsciiDigit == {"0","1","2","3","4","5","6","7","8","9"}
\* str.isspace() pieces: blank, newline, tab
Whitespace == {" ", "\n", "\t"}

\* str.upper() on one character
UpperChar(c) ==
    IF c \in AsciiLower
    THEN Upper26[CHOOSE i \in 1..26 : Lower26[i] = c]
    ELSE c

\* str.upper()
upper(s) == [i \in 1..Len(s) |-> UpperChar(s[i])]

\* s[:n]
Slice(s, n) == SubSeq(s, 1, IF n < Len(s) THEN n ELSE Len(s))

\* str.isdigit(): non-empty and every character a digit
isdigit(s) == Len(s) > 0 /\ \A i \in 1..Len(s) : s[i] \in AsciiDigit

\* str.strip(): drop leading and trailing whitespace pieces
RECURSIVE lstrip(_)
lstrip(s) ==
    IF s # << >> /\ Head(s) \in Whitespace THEN lstrip(Tail(s)) ELSE s

RECURSIVE rstrip(_)
rstrip(s) ==
    IF s # << >> /\ s[Len(s)] \in Whitespace
    THEN rstrip(SubSeq(s, 1, Len(s) - 1))
    ELSE s

strip(s) == rstrip(lstrip(s))

(***************************************************************************)
(* Regular expressions of the validators.  re.match with a pattern         *)
(* ^X{m,n}$ : Python's $ matches at the end of the string and also just    *)
(* before a newline that ends the string.                                  *)
(***************************************************************************)
AllIn(s, class) == \A i \in 1..Len(s) : s[i] \in class

\* ^[class]{lo,hi}$
MatchRun(s, class, lo, hi) ==
    LET body == IF s # << >> /\ s[Len(s)] = "\n"
                THEN {s, SubSeq(s, 1, Len(s) - 1)}
                ELSE {s}
    IN \E b \in body : Len(b) >= lo /\ Len(b) <= hi /\ AllIn(b, class)

\* ^[A-Z]{3}\d{8}$
MatchCisco(s) ==
    LET body == IF s # << >> /\ s[Len(s)] = "\n"
                THEN {s, SubSeq(s, 1, Len(s) - 1)}
                ELSE {s}
    IN \E b \in body :
          /\ Len(b) = 11
          /\ AllIn(SubSeq(b, 1, 3), AsciiUpper)
          /\ AllIn(SubSeq(b, 4, 11), AsciiDigit)

AlnumAnyCase == AsciiLower \cup AsciiUpper \cup AsciiDigit
AlnumUpper == AsciiUpper \cup AsciiDigit

SERVICE_TAG_REGEX(s) == MatchRun(s, AlnumAnyCase, 7, 7)
HP_SERIAL_REGEX(s) == MatchRun(s, AlnumAnyCase, 10, 12)
VIEWSONIC_SERIAL_REGEX(s) == MatchRun(s, AlnumAnyCase, 10, 12)
JUNIPER_SERIAL_REGEX(s) == MatchRun(s, AlnumAnyCase, 12, 12)
CYBERPOWER_SERIAL_REGEX(s) ==
    MatchRun(s, AlnumAnyCase, 12, 12) \/ MatchRun(s, AlnumAnyCase, 16, 16)
BROTHER_SERIAL_REGEX(s) == MatchRun(s, AlnumAnyCase, 15, 15)
APPLE_SERIAL_REGEX(s) ==
    MatchRun(s, AlnumAnyCase, 12, 12) \/ MatchRun(s, AlnumAnyCase, 17, 17)
ACER_SERIAL_REGEX(s) ==
    MatchRun(s, AlnumAnyCase, 22, 22) \/ MatchRun(s, AsciiDigit, 11, 12)
LENOVO_SERIAL_REGEX(s) == MatchRun(s, AlnumAnyCase, 8, 12)
CISCO_SERIAL_REGEX(s) == MatchCisco(s)
APC_SERIAL_REGEX(s) == MatchRun(s, AlnumUpper, 12, 12)
MICROSOFT_SERIAL_REGEX(s) ==
    \/ MatchRun(s, AsciiDigit, 12, 12)
    \/ MatchRun(s, AsciiDigit, 16, 16)
    \/ MatchRun(s, AlnumUpper, 12, 12)
SAMSUNG_SERIAL_REGEX(s) ==
    MatchRun(s, AlnumUpper, 11, 11) \/ MatchRun(s, AlnumUpper, 15, 15)
VIZIO_SERIAL_REGEX(s) == MatchRun(s, AlnumUpper, 14, 14)
TCL_SERIAL_REGEX(s) == MatchRun(s, AlnumUpper, 12, 14)

Vendors == {"dell", "tcl", "vizio", "samsung", "microsoft", "apc", "cisco",
            "lenovo", "acer", "apple", "brother", "cyberpower", "juniper",
            "viewsonic", "hp"}

\* the regex a vendor's route and resolver both apply
VendorRegex(v, s) ==
    CASE v = "dell" -> SERVICE_TAG_REGEX(s)
      [] v = "hp" -> HP_SERIAL_REGEX(s)
      [] v = "viewsonic" -> VIEWSONIC_SERIAL_REGEX(s)
      [] v = "juniper" -> JUNIPER_SERIAL_REGEX(s)
      [] v = "cyberpower" -> CYBERPOWER_SERIAL_REGEX(s)
      [] v = "brother" -> BROTHER_SERIAL_REGEX(s)
      [] v = "apple" -> APPLE_SERIAL_REGEX(s)
      [] v = "acer" -> ACER_SERIAL_REGEX(s)
      [] v = "lenovo" -> LENOVO_SERIAL_REGEX(s)
      [] v = "cisco" -> CISCO_SERIAL_REGEX(s)
      [] v = "apc" -> APC_SERIAL_REGEX(s)
      [] v = "microsoft" -> MICROSOFT_SERIAL_REGEX(s)
      [] v = "samsung" -> SAMSUNG_SERIAL_REGEX(s)
      [] v = "vizio" -> VIZIO_SERIAL_REGEX(s)
      [] v = "tcl" -> TCL_SERIAL_REGEX(s)

(***************************************************************************)
(* Resolver results.  A resolver returns the pair (model_name, message);   *)
(* model_name is None or a string, possibly the empty string.              *)
(***************************************************************************)
None == [some |-> FALSE, val |-> << >>]
Some(v) == [some |-> TRUE, val |-> v]

\* Python truthiness of an optional string: None and "" are falsy
Truthy(o) == o.some /\ o.val # << >>

Ret(model, msg) == [raised |-> FALSE, model_name |-> model, message |-> msg]

\* the resolver does not return: an exception no except clause catches
\* leaves it, and the route, and Flask answers 500
Uncaught == [raised |-> TRUE, model_name |-> None, message |-> << >>]

InDict(table, key) == key \in DOMAIN table

(***************************************************************************)
(* Inference resolvers: prefix tables.                                     *)
(***************************************************************************)
APPLE_prefix_to_model ==
    (<<"C","0","2">> :> <<"MacBook Pro (Inferred)">>) @@
    (<<"C","0","3">> :> <<"MacBook Air (Inferred)">>) @@
    (<<"C","1","M">> :> <<"iMac (Inferred)">>) @@
    (<<"D","C","P">> :> <<"Mac Mini (Inferred)">>) @@
    (<<"F","4","H">> :> <<"iPad Pro (Inferred)">>) @@
    (<<"F","5","K">> :> <<"iPad Air (Inferred)">>) @@
    (<<"F","9","F">> :> <<"iPhone (Inferred)">>) @@
    (<<"F","9","G">> :> <<"iPhone (Inferred)">>) @@
    (<<"G","0","C">> :> <<"Apple Watch (Inferred)">>) @@
    (<<"F","T","Y">> :> <<"iPod Touch (Inferred)">>)

get_apple_model_name(serial_number) ==
    IF ~APPLE_SERIAL_REGEX(serial_number)
    THEN Ret(None, <<"Invalid Apple Serial Number format (must be 12 or 17 alphanumeric characters).">>)
    ELSE LET prefix == upper(Slice(serial_number, 3))
         IN IF InDict(APPLE_prefix_to_model, prefix)
            THEN Ret(Some(APPLE_prefix_to_model[prefix]),
                     <<"Model inferred from serial number prefix '">> \o prefix
                        \o <<"'. Please verify.">>)
            ELSE Ret(None, <<"Could not infer Apple model from serial number prefix.">>)

CISCO_prefix_to_model ==
    (<<"F","O","X">> :> <<"Cisco Product (Foxconn - Common for Switches/Routers)">>) @@
    (<<"F","O","C">> :> <<"Cisco Product (China - Common for Switches/Routers)">>) @@
    (<<"J","A","E">> :> <<"Cisco Product (Japan - Older/Specialized Gear)">>) @@
    (<<"J","A","B">> :> <<"Cisco Product (Japan - Older/Specialized Gear)">>) @@
    (<<"K","W","C">> :> <<"Cisco Product (Common for Access Points/Smaller Devices)">>)

get_cisco_model_name_nogeneric(serial_number) ==
    IF ~CISCO_SERIAL_REGEX(serial_number)
    THEN Ret(None, <<"Invalid Cisco Serial Number format (must be 11 characters: LLLYYWWXXXX).">>)
    ELSE LET prefix == upper(Slice(serial_number, 3))
         IN IF InDict(CISCO_prefix_to_model, prefix)
            THEN Ret(Some(CISCO_prefix_to_model[prefix]),
                     <<"Model inferred from serial number location code '">> \o prefix
                        \o <<"'. Please verify.">>)
            ELSE Ret(None, <<"Could not infer Cisco model from serial number prefix.">>)

get_cisco_model_name(serial_number) ==
    IF ~CISCO_SERIAL_REGEX(serial_number)
    THEN Ret(None, <<"Invalid Cisco Serial Number format (must be 11 characters: LLLYYWWXXXX).">>)
    ELSE LET prefix == upper(Slice(serial_number, 3))
         IN IF InDict(CISCO_prefix_to_model, prefix)
            THEN Ret(Some(CISCO_prefix_to_model[prefix]),
                     <<"Model inferred from serial number location code '">> \o prefix
                        \o <<"'. Please verify.">>)
            ELSE Ret(Some(<<"Cisco Network Device (Inferred)">>),
                     <<"Model inferred from serial number structure. Please verify.">>)

get_tcl_model_name(serial_number) ==
    IF ~TCL_SERIAL_REGEX(serial_number)
    THEN Ret(None, <<"Invalid TCL Serial Number format (must be 12-14 alphanumeric characters).">>)
    ELSE Ret(Some(<<"TCL TV/Display (Inferred)">>),
             <<"Model inferred from serial number structure. Please verify.">>)

VIZIO_model_map ==
    (<<"L","T","M","A">> :> <<"Vizio M-Series TV (Inferred)">>) @@
    (<<"L","T","A","S">> :> <<"Vizio E-Series TV (Inferred)">>) @@
    (<<"L","T","J","Z">> :> <<"Vizio V-Series TV (Inferred)">>) @@
    (<<"L","T","J","A">> :> <<"Vizio D-Series TV (Inferred)">>)

get_vizio_model_name(serial_number) ==
    IF ~VIZIO_SERIAL_REGEX(serial_number)
    THEN Ret(None, <<"Invalid Vizio Serial Number format (must be 14 alphanumeric characters).">>)
    ELSE LET prefix == Slice(serial_number, 4)
             model == IF InDict(VIZIO_model_map, prefix)
                      THEN Some(VIZIO_model_map[prefix])
                      ELSE None
         IN IF Truthy(model)
            THEN Ret(model,
                     <<"Model inferred from serial number prefix '">> \o prefix
                        \o <<"'. Please verify.">>)
            ELSE Ret(Some(<<"Vizio Display/TV (Inferred)">>),
                     <<"Model inferred from serial number structure. Please verify.">>)

get_samsung_model_name(serial_number) ==
    IF ~SAMSUNG_SERIAL_REGEX(serial_number)
    THEN Ret(None, <<"Invalid Samsung Serial Number format (must be 11 or 15 alphanumeric characters).">>)
    ELSE Ret(Some(<<"Samsung Device (Inferred)">>),
             <<"Model inferred from serial number structure. Please verify.">>)

get_microsoft_model_name(serial_number) ==
    IF ~MICROSOFT_SERIAL_REGEX(serial_number)
    THEN Ret(None, <<"Invalid Microsoft Serial Number format (must be 12 or 16 digits/letters).">>)
    ELSE Ret(Some(<<"Microsoft Surface Device (Inferred)">>),
             <<"Model inferred from serial number structure. Please verify.">>)

APC_prefix_to_model ==
    (<<"A","S">> :> <<"APC Smart-UPS (Rack/Tower)">>) @@
    (<<"A","P">> :> <<"APC Power Distribution Unit (PDU)">>) @@
    (<<"B","B">> :> <<"APC Back-UPS (Basic Battery Backup)">>) @@
    (<<"B","K">> :> <<"APC Back-UPS (Basic Battery Backup)">>) @@
    (<<"S","M">> :> <<"APC Smart-UPS (Older Models)">>) @@
    (<<"S","U">> :> <<"APC Smart-UPS (Older Models)">>) @@
    (<<"S","Y">> :> <<"APC Symmetra (Modular UPS)">>)

get_apc_model_name(serial_number) ==
    IF ~APC_SERIAL_REGEX(serial_number)
    THEN Ret(None, <<"Invalid APC Serial Number format (must be 12 alphanumeric characters).">>)
    ELSE LET prefix == upper(Slice(serial_number, 2))
         IN IF InDict(APC_prefix_to_model, prefix)
            THEN Ret(Some(APC_prefix_to_model[prefix]),
                     <<"Model inferred from serial number prefix '">> \o prefix
                        \o <<"'. Please verify.">>)
            ELSE Ret(Some(<<"APC UPS/Power Device (Inferred)">>),
                     <<"Model inferred from serial number structure. Please verify.">>)

BROTHER_prefix_to_model ==
    (<<"U","6">> :> <<"Brother HL-L Series Laser Printer">>) @@
    (<<"E","6">> :> <<"Brother MFC-L Series All-in-One">>) @@
    (<<"K","6">> :> <<"Brother DCP-L Series All-in-One">>) @@
    (<<"D","6">> :> <<"Brother MFC-J Series Inkjet">>) @@
    (<<"J","6">> :> <<"Brother DCP-J Series Inkjet">>)

get_brother_model_name(serial_number) ==
    IF ~BROTHER_SERIAL_REGEX(serial_number)
    THEN Ret(None, <<"Invalid Brother Serial Number format (must be 15 alphanumeric characters).">>)
    ELSE LET prefix == upper(Slice(serial_number, 2))
         IN IF InDict(BROTHER_prefix_to_model, prefix)
            THEN Ret(Some(BROTHER_prefix_to_model[prefix]),
                     <<"Model inferred from serial number prefix '">> \o prefix
                        \o <<"'. Please verify.">>)
            ELSE Ret(None, <<"Could not infer Brother model from serial number prefix.">>)

CYBERPOWER_prefix_to_model ==
    (<<"C","P">> :> <<"CyberPower CP Series UPS">>) @@
    (<<"P","R">> :> <<"CyberPower PR Series UPS">>) @@
    (<<"O","R">> :> <<"CyberPower OR Series UPS">>) @@
    (<<"B","P">> :> <<"CyberPower Battery Pack">>) @@
    (<<"C","P","1">> :> <<"CyberPower CP1500PFCLCD">>) @@
    (<<"C","P","2">> :> <<"CyberPower CP1000PFCLCD">>)

get_cyberpower_model_name_shortfirst(serial_number) ==
    IF ~CYBERPOWER_SERIAL_REGEX(serial_number)
    THEN Ret(None, <<"Invalid CyberPower Serial Number format (must be 12 or 16 alphanumeric characters).">>)
    ELSE LET prefix3 == upper(Slice(serial_number, 3))
             prefix2 == upper(Slice(serial_number, 2))
         IN IF InDict(CYBERPOWER_prefix_to_model, prefix2)
            THEN Ret(Some(CYBERPOWER_prefix_to_model[prefix2]),
                     <<"Model inferred from serial number prefix '">> \o prefix2
                        \o <<"'. Please verify.">>)
            ELSE IF InDict(CYBERPOWER_prefix_to_model, prefix3)
            THEN Ret(Some(CYBERPOWER_prefix_to_model[prefix3]),
                     <<"Model inferred from serial number prefix '">> \o prefix3
                        \o <<"'. Please verify.">>)
            ELSE Ret(None, <<"Could not infer CyberPower model from serial number prefix.">>)

get_cyberpower_model_name(serial_number) ==
    IF ~CYBERPOWER_SERIAL_REGEX(serial_number)
    THEN Ret(None, <<"Invalid CyberPower Serial Number format (must be 12 or 16 alphanumeric characters).">>)
    ELSE LET prefix3 == upper(Slice(serial_number, 3))
             prefix2 == upper(Slice(serial_number, 2))
         IN IF InDict(CYBERPOWER_prefix_to_model, prefix3)
            THEN Ret(Some(CYBERPOWER_prefix_to_model[prefix3]),
                     <<"Model inferred from serial number prefix '">> \o prefix3
                        \o <<"'. Please verify.">>)
            ELSE IF InDict(CYBERPOWER_prefix_to_model, prefix2)
            THEN Ret(Some(CYBERPOWER_prefix_to_model[prefix2]),
                     <<"Model inferred from serial number prefix '">> \o prefix2
                        \o <<"'. Please verify.">>)
            ELSE Ret(None, <<"Could not infer CyberPower model from serial number prefix.">>)

JUNIPER_prefix_to_model ==
    (<<"A","A">> :> <<"EX4100-24P">>) @@
    (<<"A","B">> :> <<"EX4100-48P">>) @@
    (<<"A","C">> :> <<"EX4100-24T">>) @@
    (<<"A","D">> :> <<"EX4100-48T">>) @@
    (<<"B","A">> :> <<"EX4300-24P">>) @@
    (<<"B","B">> :> <<"EX4300-48P">>) @@
    (<<"C","A">> :> <<"EX2300-24P">>) @@
    (<<"C","B">> :> <<"EX2300-48P">>)

get_juniper_model_name_generic(serial_number) ==
    IF ~JUNIPER_SERIAL_REGEX(serial_number)
    THEN Ret(None, <<"Invalid Juniper Serial Number format (must be 12 alphanumeric characters).">>)
    ELSE LET prefix == upper(Slice(serial_number, 2))
         IN IF InDict(JUNIPER_prefix_to_model, prefix)
            THEN Ret(Some(JUNIPER_prefix_to_model[prefix]),
                     <<"Model inferred from serial number prefix '">> \o prefix
                        \o <<"'. Please verify.">>)
            ELSE Ret(Some(<<"Juniper Network Device (Inferred)">>),
                     <<"Model inferred from serial number structure. Please verify.">>)

get_juniper_model_name(serial_number) ==
    IF ~JUNIPER_SERIAL_REGEX(serial_number)
    THEN Ret(None, <<"Invalid Juniper Serial Number format (must be 12 alphanumeric characters).">>)
    ELSE LET prefix == upper(Slice(serial_number, 2))
         IN IF InDict(JUNIPER_prefix_to_model, prefix)
            THEN Ret(Some(JUNIPER_prefix_to_model[prefix]),
                     <<"Model inferred from serial number prefix '">> \o prefix
                        \o <<"'. Please verify.">>)
            ELSE Ret(None, <<"Could not infer Juniper model from serial number prefix.">>)

(***************************************************************************)
(* The outbound GET and what it can give back.  requests.get either raises *)
(* (exc names the exception class) or returns a response with a status     *)
(* code and a body; raise_for_status raises HTTPError for 4xx and 5xx.     *)
(* The body is the parsed markup: for each selector the resolvers use,     *)
(* the text of the first element it finds, or None.                        *)
(***************************************************************************)
Selectors == {"h1.product-name", "h1.product-title", "h2.product-name",
              "span.product-name", "span#modelName", "span.model-name",
              "title"}

NoPage == [sel \in Selectors |-> None]

Response(status, page) == [exc |-> "none", status_code |-> status, page |-> page]
Raised(exc) == [exc |-> exc, status_code |-> 0, page |-> NoPage]

\* requests' exception classes: ConnectTimeout is both a ConnectionError
\* and a Timeout; every class is a RequestException
GetRaised(r) == r.exc # "none"
RaisesForStatus(r) == r.exc = "none" /\ r.status_code >= 400 /\ r.status_code < 600
IsHTTPError(r) == RaisesForStatus(r)
IsConnectionError(r) == r.exc \in {"ConnectionError", "ConnectTimeout"}
IsTimeout(r) == r.exc \in {"ReadTimeout", "ConnectTimeout"}
IsRequestException(r) == GetRaised(r) \/ RaisesForStatus(r)

\* str(e) of the exception, one piece
ExcText(r) ==
    IF GetRaised(r) THEN <<r.exc>>
    ELSE IF r.status_code = 404 THEN <<"404 Client Error">>
    ELSE IF r.status_code < 500 THEN <<"4xx Client Error">>
    ELSE <<"5xx Server Error">>

\* soup.find(name, class_/id): the element's text, or None
find(page, sel) == page[sel]

\* a or b on two find() results: a Tag is always truthy
OrElse(a, b) == IF a.some THEN a ELSE b

(***************************************************************************)
(* Searching page texts.  Texts are sequences of words and whitespace      *)
(* pieces; "." of a regex matches every piece but a newline.               *)
(***************************************************************************)
StartsAt(text, i, lit) ==
    /\ i >= 1
    /\ i + Len(lit) - 1 <= Len(text)
    /\ SubSeq(text, i, i + Len(lit) - 1) = lit

\* lit in text
Contains(text, lit) == \E i \in 1..Len(text) : StartsAt(text, i, lit)

\* \s+ covering exactly text[i..j]
IsSpaceRun(text, i, j) ==
    /\ i >= 1 /\ i <= j /\ j <= Len(text)
    /\ \A k \in i..j : text[k] \in Whitespace

\* .+ covering exactly text[i..j]
IsDotRun(text, i, j) ==
    /\ i >= 1 /\ i <= j /\ j <= Len(text)
    /\ \A k \in i..j : text[k] # "\n"

\* the match re.search reports among candidate groups text[i..j]: leftmost
\* start, and for the lazy group the shortest
FirstMatch(M) ==
    CHOOSE m \in M : \A o \in M : m[1] < o[1] \/ (m[1] = o[1] /\ m[2] <= o[2])

\* case variants of the words the IGNORECASE substitutions look for
AnyCaseHP == {"HP", "hp", "Hp", "hP"}
AnyCaseSupport == {"Support", "support", "SUPPORT"}
AnyCaseFor == {"for", "For", "FOR"}

\* words of the page vocabulary that match [A-Z0-9]+
UpperAlnumWords == {"IFP6550", "X1", "HP", "US", "5420", "XPS", "VX2418"}

\* re.sub(r'^HP\s+', '', s, flags=re.IGNORECASE)
SubLeadingHP(s) ==
    IF Len(s) >= 2 /\ s[1] \in AnyCaseHP /\ s[2] \in Whitespace
    THEN lstrip(SubSeq(s, 2, Len(s)))
    ELSE s

\* re.sub(r'^Support for\s+', '', s, flags=re.IGNORECASE)
SubLeadingSupportFor(s) ==
    IF /\ Len(s) >= 4
       /\ s[1] \in AnyCaseSupport /\ s[2] = " " /\ s[3] \in AnyCaseFor
       /\ s[4] \in Whitespace
    THEN lstrip(SubSeq(s, 4, Len(s)))
    ELSE s

\* re.search(r'Support for (.+?) \| Dell US', text): group 1, or None
SearchDellTitle(text) ==
    LET n == Len(text)
        M == {m \in (1..n) \X (1..n) :
                /\ StartsAt(text, m[1] - 4, <<"Support", " ", "for", " ">>)
                /\ IsDotRun(text, m[1], m[2])
                /\ StartsAt(text, m[2] + 1, <<" ", "|", " ", "Dell", " ", "US">>)}
    IN IF M = {} THEN None
       ELSE Some(SubSeq(text, FirstMatch(M)[1], FirstMatch(M)[2]))

\* re.search(r'(.+?)\s+\|\s+HP Product Information', text): group 1, or None
SearchHPTitle(text) ==
    LET n == Len(text)
        M == {m \in (1..n) \X (1..n) :
                /\ IsDotRun(text, m[1], m[2])
                /\ \E a \in 1..n, b \in 1..n :
                      /\ IsSpaceRun(text, m[2] + 1, a)
                      /\ StartsAt(text, a + 1, <<"|">>)
                      /\ IsSpaceRun(text, a + 2, b)
                      /\ StartsAt(text, b + 1,
                                  <<"HP", " ", "Product", " ", "Information">>)}
    IN IF M = {} THEN None
       ELSE Some(SubSeq(text, FirstMatch(M)[1], FirstMatch(M)[2]))

\* re.search(r'ViewSonic\s+([A-Z0-9]+)\s+Product', text): group 1, or None
SearchViewSonicTitle(text) ==
    LET n == Len(text)
        M == {m \in (1..n) \X (1..n) :
                /\ m[1] = m[2]
                /\ text[m[1]] \in UpperAlnumWords
                /\ \E a \in 1..n, b \in 1..n :
                      /\ StartsAt(text, a, <<"ViewSonic">>)
                      /\ IsSpaceRun(text, a + 1, m[1] - 1)
                      /\ IsSpaceRun(text, m[2] + 1, b)
                      /\ StartsAt(text, b + 1, <<"Product">>)}
    IN IF M = {} THEN None
       ELSE Some(SubSeq(text, FirstMatch(M)[1], FirstMatch(M)[2]))

(***************************************************************************)
(* Scrape resolvers.  Each takes the identifier and r, what its single     *)
(* requests.get gave back; when the identifier fails the resolver's own    *)
(* regex check the resolver returns before the GET and r is not looked at. *)
(***************************************************************************)
get_lenovo_model_name(serial_number, r) ==
    IF ~LENOVO_SERIAL_REGEX(serial_number)
    THEN Ret(None, <<"Invalid Lenovo Serial Number format (must be 8-12 alphanumeric characters).">>)
    ELSE IF IsRequestException(r)
    THEN Ret(None, <<"Request failed (Web scraping failed): ">> \o ExcText(r))
    ELSE LET model_element == OrElse(find(r.page, "span.product-name"),
                                     find(r.page, "h2.product-name"))
             model_name == strip(model_element.val)
         IN IF model_element.some /\ model_name # << >>
            THEN Ret(Some(model_name), <<"Model found via web scraping.">>)
            ELSE Ret(None, <<"Model name element not found on Lenovo support page.">>)

acer_request_failed_plain(serial_number, r) ==
    Ret(None, <<"Request failed: ">> \o ExcText(r))

\* the except clause of the Acer resolver
acer_request_failed(serial_number, r) ==
    IF Len(serial_number) = 22
    THEN Ret(Some(<<"Acer Product (Serial: ">> \o Slice(serial_number, 5) \o <<"...)">>),
             <<"Model inferred from serial number prefix (Web scraping failed). Please verify.">>)
    ELSE IF Len(serial_number) >= 11 /\ isdigit(serial_number)
    THEN Ret(Some(<<"Acer Product (SNID: ">> \o serial_number \o <<")">>),
             <<"Model inferred from SNID (Web scraping failed). Please verify.">>)
    ELSE Ret(None, <<"Request failed: ">> \o ExcText(r))

acer_parse_nofallback(serial_number, r) ==
    LET model_element == OrElse(find(r.page, "h1.product-name"),
                                find(r.page, "h2.product-name"))
        model_name == strip(model_element.val)
    IN IF model_element.some /\ model_name # << >>
       THEN Ret(Some(model_name), <<"Model found via web scraping.">>)
       ELSE Ret(None, <<"Model name element not found on Acer support page.">>)

\* the Acer resolver after a successful GET
acer_parse(serial_number, r) ==
    LET model_element == OrElse(find(r.page, "h1.product-name"),
                                find(r.page, "h2.product-name"))
        model_name == strip(model_element.val)
    IN IF model_element.some /\ model_name # << >>
       THEN Ret(Some(model_name), <<"Model found via web scraping.">>)
       ELSE IF Len(serial_number) = 22
       THEN Ret(Some(<<"Acer Product (Serial: ">> \o Slice(serial_number, 5) \o <<"...)">>),
                <<"Model inferred from serial number prefix. Please verify.">>)
       ELSE Ret(None, <<"Model name element not found on Acer support page.">>)

get_acer_model_name(serial_number, r) ==
    IF ~ACER_SERIAL_REGEX(serial_number)
    THEN Ret(None, <<"Invalid Acer Serial Number/SNID format (must be 22 alphanumeric or 11/12 digit SNID).">>)
    ELSE IF IsRequestException(r)
    THEN acer_request_failed(serial_number, r)
    ELSE acer_parse(serial_number, r)

FetchFailure_lumped(r, what) ==
    IF IsHTTPError(r)
    THEN IF r.status_code = 404
         THEN Ret(None, <<what, " found, but product page not found (404). It might be too old or invalid.">>)
         ELSE Ret(None, <<"HTTP Error: ">> \o ExcText(r))
    ELSE IF IsRequestException(r)
    THEN Ret(None, <<"Request failed: ">> \o ExcText(r))
    ELSE Uncaught

FetchFailure_nolast(r, what) ==
    IF IsHTTPError(r)
    THEN IF r.status_code = 404
         THEN Ret(None, <<what, " found, but product page not found (404). It might be too old or invalid.">>)
         ELSE Ret(None, <<"HTTP Error: ">> \o ExcText(r))
    ELSE IF IsConnectionError(r)
    THEN Ret(None, <<"Error Connecting: ">> \o ExcText(r))
    ELSE IF IsTimeout(r)
    THEN Ret(None, <<"Timeout Error: ">> \o ExcText(r))
    ELSE Uncaught

\* the except clauses shared by the Dell, HP and ViewSonic resolvers, in
\* their order; what names the identifier in the 404 message
FetchFailure(r, what) ==
    IF IsHTTPError(r)
    THEN IF r.status_code = 404
         THEN Ret(None, <<what, " found, but product page not found (404). It might be too old or invalid.">>)
         ELSE Ret(None, <<"HTTP Error: ">> \o ExcText(r))
    ELSE IF IsConnectionError(r)
    THEN Ret(None, <<"Error Connecting: ">> \o ExcText(r))
    ELSE IF IsTimeout(r)
    THEN Ret(None, <<"Timeout Error: ">> \o ExcText(r))
    ELSE IF IsRequestException(r)
    THEN Ret(None, <<"An unexpected error occurred: ">> \o ExcText(r))
    ELSE Uncaught

get_viewsonic_model_name(serial_number, r) ==
    IF ~VIEWSONIC_SERIAL_REGEX(serial_number)
    THEN Ret(None, <<"Invalid ViewSonic Serial Number format.">>)
    ELSE IF IsRequestException(r)
    THEN FetchFailure(r, "Serial Number")
    ELSE LET product_name_element == OrElse(find(r.page, "h1.product-name"),
                                            find(r.page, "span.model-name"))
             title_tag == find(r.page, "title")
             match == SearchViewSonicTitle(title_tag.val)
         IN IF product_name_element.some
            THEN Ret(Some(strip(product_name_element.val)),
                     <<"Model name scraped successfully.">>)
            ELSE IF /\ title_tag.some
                    /\ Contains(title_tag.val, <<"ViewSonic">>)
                    /\ match.some
                    /\ strip(match.val) # << >>
            THEN Ret(Some(strip(match.val)),
                     <<"Model name scraped from page title (fallback).">>)
            ELSE Ret(None, <<"Could not find the product model name on the page.">>)

get_hp_model_name(serial_number, r) ==
    IF ~HP_SERIAL_REGEX(serial_number)
    THEN Ret(None, <<"Invalid HP Serial Number format.">>)
    ELSE IF IsRequestException(r)
    THEN FetchFailure(r, "Serial Number")
    ELSE LET product_name_element == OrElse(find(r.page, "h1.product-title"),
                                            find(r.page, "span.product-name"))
             title_tag == find(r.page, "title")
             match == SearchHPTitle(title_tag.val)
         IN IF product_name_element.some
            THEN Ret(Some(strip(SubLeadingHP(strip(product_name_element.val)))),
                     <<"Model name scraped successfully.">>)
            ELSE IF /\ title_tag.some
                    /\ Contains(title_tag.val, <<"HP", " ", "Product", " ", "Information">>)
                    /\ match.some
                    /\ strip(match.val) # << >>
            THEN Ret(Some(strip(match.val)),
                     <<"Model name scraped from page title (fallback).">>)
            ELSE Ret(None, <<"Could not find the product model name on the page.">>)

get_dell_model_name_wholetitle(service_tag, r) ==
    IF ~SERVICE_TAG_REGEX(service_tag)
    THEN Ret(None, <<"Invalid Dell Service Tag format.">>)
    ELSE IF IsRequestException(r)
    THEN FetchFailure(r, "Service Tag")
    ELSE LET product_name_element == OrElse(find(r.page, "h1.product-name"),
                                            find(r.page, "span#modelName"))
             title_tag == find(r.page, "title")
         IN IF /\ ~product_name_element.some
               /\ title_tag.some
               /\ Contains(title_tag.val, <<"Support", " ", "for">>)
               /\ strip(title_tag.val) # << >>
            THEN Ret(Some(strip(title_tag.val)),
                     <<"Model name scraped from page title (fallback).">>)
            ELSE IF product_name_element.some
            THEN Ret(Some(strip(SubLeadingSupportFor(strip(product_name_element.val)))),
                     <<"Model name scraped successfully.">>)
            ELSE Ret(None, <<"Could not find the product model name on the page.">>)

get_dell_model_name(service_tag, r) ==
    IF ~SERVICE_TAG_REGEX(service_tag)
    THEN Ret(None, <<"Invalid Dell Service Tag format.">>)
    ELSE IF IsRequestException(r)
    THEN FetchFailure(r, "Service Tag")
    ELSE LET product_name_element == OrElse(find(r.page, "h1.product-name"),
                                            find(r.page, "span#modelName"))
             title_tag == find(r.page, "title")
             match == SearchDellTitle(title_tag.val)
         IN IF /\ ~product_name_element.some
               /\ title_tag.some
               /\ Contains(title_tag.val, <<"Support", " ", "for">>)
               /\ match.some
               /\ strip(match.val) # << >>
            THEN Ret(Some(strip(match.val)),
                     <<"Model name scraped from page title (fallback).">>)
            ELSE IF product_name_element.some
            THEN Ret(Some(strip(SubLeadingSupportFor(strip(product_name_element.val)))),
                     <<"Model name scraped successfully.">>)
            ELSE Ret(None, <<"Could not find the product model name on the page.">>)

ScrapeVendors_microsoft == {"dell", "hp", "lenovo", "acer", "viewsonic", "microsoft"}

\* the resolvers that call requests.get
ScrapeVendors == {"dell", "hp", "lenovo", "acer", "viewsonic"}

RetriesGet_onfailure(v, r) == IsRequestException(r)

\* after a GET that failed, does the resolver issue the GET again?  Every
\* except clause returns; there is no loop around requests.get
RetriesGet(v, r) == FALSE

\* the vendor's resolver
Resolver(v, tag, r) ==
    CASE v = "dell" -> get_dell_model_name(tag, r)
      [] v = "hp" -> get_hp_model_name(tag, r)
      [] v = "viewsonic" -> get_viewsonic_model_name(tag, r)
      [] v = "lenovo" -> get_lenovo_model_name(tag, r)
      [] v = "acer" -> get_acer_model_name(tag, r)
      [] v = "juniper" -> get_juniper_model_name(tag)
      [] v = "cyberpower" -> get_cyberpower_model_name(tag)
      [] v = "brother" -> get_brother_model_name(tag)
      [] v = "apple" -> get_apple_model_name(tag)
      [] v = "cisco" -> get_cisco_model_name(tag)
      [] v = "apc" -> get_apc_model_name(tag)
      [] v = "microsoft" -> get_microsoft_model_name(tag)
      [] v = "samsung" -> get_samsung_model_name(tag)
      [] v = "vizio" -> get_vizio_model_name(tag)
      [] v = "tcl" -> get_tcl_model_name(tag)

(***************************************************************************)
(* The lookup routes.  The fifteen lookup_<vendor> functions differ only   *)
(* in the regex, the resolver, the texts of their two 400 errors and the   *)
(* key under which the identifier is echoed.                               *)
(***************************************************************************)
\* request.args.get('tag', '').upper(): an absent argument reads as ''
Normalize_asgiven(arg) == IF arg.some THEN arg.val ELSE << >>

Normalize(arg) == upper(IF arg.some THEN arg.val ELSE << >>)

RouteCheck_formatfirst(v, tag) ==
    IF ~VendorRegex(v, tag) THEN "invalid"
    ELSE IF tag = << >> THEN "missing"
    ELSE "resolve"

\* the first two checks of a route, in their order
RouteCheck(v, tag) ==
    IF tag = << >> THEN "missing"
    ELSE IF ~VendorRegex(v, tag) THEN "invalid"
    ELSE "resolve"

IdKey(v) == IF v = "dell" THEN "service_tag" ELSE "serial_number"

MissingError(v) ==
    IF v = "dell" THEN <<"Missing service tag parameter.">>
    ELSE <<"Missing serial number parameter.">>

InvalidError(v) ==
    CASE v = "dell" -> <<"Invalid Dell Service Tag format (must be 7 alphanumeric characters).">>
      [] v = "tcl" -> <<"Invalid TCL Serial Number format.">>
      [] v = "vizio" -> <<"Invalid Vizio Serial Number format.">>
      [] v = "samsung" -> <<"Invalid Samsung Serial Number format.">>
      [] v = "microsoft" -> <<"Invalid Microsoft Serial Number format.">>
      [] v = "apc" -> <<"Invalid APC Serial Number format.">>
      [] v = "cisco" -> <<"Invalid Cisco Serial Number format.">>
      [] v = "lenovo" -> <<"Invalid Lenovo Serial Number format.">>
      [] v = "acer" -> <<"Invalid Acer Serial Number/SNID format.">>
      [] v = "apple" -> <<"Invalid Apple Serial Number format (must be 12 or 17 alphanumeric characters).">>
      [] v = "brother" -> <<"Invalid Brother Serial Number format (must be 15 alphanumeric characters).">>
      [] v = "cyberpower" -> <<"Invalid CyberPower Serial Number format (must be 12 or 16 alphanumeric characters).">>
      [] v = "juniper" -> <<"Invalid Juniper Serial Number format (must be 12 alphanumeric characters).">>
      [] v = "viewsonic" -> <<"Invalid ViewSonic Serial Number format (must be 10-12 alphanumeric characters).">>
      [] v = "hp" -> <<"Invalid HP Serial Number format (must be 10-12 alphanumeric characters).">>

\* an HTTP response: status, the JSON body's keys (None when the key is
\* absent; success is "true", "false" or "absent"), and the redirect target
Reply(status, success, key, id, model, message, error, location) ==
    [status |-> status, success |-> success, id_key |-> key, id |-> id,
     model_name |-> model, message |-> message, error |-> error,
     location |-> location]

NoReply == Reply(0, "absent", "", None, None, None, None, "")

\* jsonify({'error': ...}), 400
ErrorReply(error) == Reply(400, "absent", "", None, None, None, Some(error), "")

RouteReply_isnotnone(v, tag, ret) ==
    IF ret.raised
    THEN Reply(500, "absent", "", None, None, None, None, "")
    ELSE IF ret.model_name.some
    THEN Reply(200, "true", IdKey(v), Some(tag), ret.model_name,
               Some(ret.message), None, "")
    ELSE Reply(404, "false", IdKey(v), Some(tag), None, None,
               Some(ret.message), "")

RouteReply_badgateway(v, tag, ret) ==
    IF ret.raised
    THEN Reply(500, "absent", "", None, None, None, None, "")
    ELSE IF Truthy(ret.model_name)
    THEN Reply(200, "true", IdKey(v), Some(tag), ret.model_name,
               Some(ret.message), None, "")
    ELSE Reply(502, "false", IdKey(v), Some(tag), None, None,
               Some(ret.message), "")

RouteReply_genericerror(v, tag, ret) ==
    IF ret.raised
    THEN Reply(500, "absent", "", None, None, None, None, "")
    ELSE IF Truthy(ret.model_name)
    THEN Reply(200, "true", IdKey(v), Some(tag), ret.model_name,
               Some(ret.message), None, "")
    ELSE Reply(404, "false", IdKey(v), Some(tag), None, None,
               Some(<<"Model not found.">>), "")

\* the tail of a route: the resolver's pair turned into the JSON response
RouteReply(v, tag, ret) ==
    IF ret.raised
    THEN Reply(500, "absent", "", None, None, None, None, "")
    ELSE IF Truthy(ret.model_name)
    THEN Reply(200, "true", IdKey(v), Some(tag), ret.model_name,
               Some(ret.message), None, "")
    ELSE Reply(404, "false", IdKey(v), Some(tag), None, None,
               Some(ret.message), "")

(***************************************************************************)
(* Google SSO: the session of one browser.  A key absent from the session  *)
(* is None.                                                                *)
(***************************************************************************)
EmptySession == [user_email |-> None, user_name |-> None, oauth_state |-> None]

\* the decorator lets the request through when 'user_email' is in the
\* session, and answers with a redirect to /login otherwise
login_required_open(sess) == TRUE

login_required(sess) == sess.user_email.some

\* redirect(url_for('login'))
LoginRedirect == Reply(302, "absent", "", None, None, None, None, "/login")

\* str.endswith('@vvisd.org') on an address given as its pieces
EndsWithDomain(email) == email # << >> /\ email[Len(email)] = "@vvisd.org"

\* user_info.get('email', '')
EmailOf(user_info) == IF user_info.email.some THEN user_info.email.val ELSE << >>

\* the session after /google/callback, given the request's error
\* argument, whether the token fetch succeeds and the user info fetched
callback_anydomain(sess, has_error, token_ok, user_info) ==
    IF has_error THEN sess
    ELSE IF ~token_ok THEN sess
    ELSE [sess EXCEPT !.user_email = user_info.email,
                      !.user_name = IF user_info.name.some
                                    THEN user_info.name
                                    ELSE Some(<<"User">>)]

callback(sess, has_error, token_ok, user_info) ==
    IF has_error THEN sess
    ELSE IF ~token_ok THEN sess
    ELSE IF ~EndsWithDomain(EmailOf(user_info)) THEN sess
    ELSE [sess EXCEPT !.user_email = user_info.email,
                      !.user_name = IF user_info.name.some
                                    THEN user_info.name
                                    ELSE Some(<<"User">>)]

(***************************************************************************)
(* Inputs.  A raw identifier is a prefix padded with "0" to a length,      *)
(* then possibly damaged: one character replaced by "-", a newline         *)
(* appended, or blanks put around it.                                      *)
(***************************************************************************)
CommonPrefixes == {<<"Z","Z","Z">>, <<"c","p","1">>, <<"1","2","3">>}

\* the prefixes tried on a vendor: an unknown one in upper case, a lower-case
\* one, digits, and keys of the vendor's own table
PrefixesOf(v) ==
    CommonPrefixes \cup
    (CASE v = "cyberpower" -> {<<"C","P","1">>, <<"C","P","X">>}
       [] v = "cisco" -> {<<"F","O","X">>}
       [] v = "juniper" -> {<<"A","A","B">>}
       [] v = "apple" -> {<<"C","0","2">>}
       [] v = "brother" -> {<<"U","6","X">>}
       [] v = "vizio" -> {<<"L","T","M","A">>}
       [] v = "apc" -> {<<"A","S","X">>}
       [] OTHER -> {})

Pad(prefix, n) ==
    [i \in 1..n |-> IF i <= Len(prefix) THEN prefix[i] ELSE "0"]

Damages == {"none", "first", "middle", "last", "newline", "blanks"}

Damage(s, d) ==
    CASE d = "none" -> s
      [] d = "first" -> [s EXCEPT ![1] = "-"]
      [] d = "middle" -> [s EXCEPT ![(Len(s) + 1) \div 2] = "-"]
      [] d = "last" -> [s EXCEPT ![Len(s)] = "-"]
      [] d = "newline" -> s \o <<"\n">>
      [] d = "blanks" -> <<" ">> \o s \o <<" ">>

RawIdsOf(v) ==
    {<< >>} \cup
    {Damage(Pad(p, n), d) : p \in PrefixesOf(v), n \in 1..(MaxLen - 1),
                            d \in Damages \ {"blanks"}} \cup
    {Damage(Pad(p, n), "blanks") : p \in PrefixesOf(v), n \in 1..(MaxLen - 2)}

\* the tag argument of a request: absent, or a raw identifier
TagArgsOf(v) == {None} \cup {Some(s) : s \in RawIdsOf(v)}

\* page texts
ElementTexts == {<<" ", "\n">>,
                 <<" ", "Latitude", " ", "5420", "\n">>,
                 <<"HP", " ", "EliteBook">>,
                 <<"Support", " ", "for", " ", "XPS">>}
SecondTexts == {<< >>, <<"HP", " ", "EliteBook">>}
TitleTexts == {<<"Support", " ", "for", " ", "ThinkPad", " ", "X1", " ", "|",
                 " ", "Dell", " ", "US">>,
               <<"HP", " ", "EliteBook", " ", "|", " ", "HP", " ", "Product",
                 " ", "Information">>,
               <<"ViewSonic", " ", "VX2418", " ", "Product", " ", "Support">>,
               <<"Page", " ", "Not", " ", "Found">>}

\* the selectors a vendor's resolver looks at: first, second, title
SelectorsOf(v) ==
    CASE v = "dell" -> <<"h1.product-name", "span#modelName", "title">>
      [] v = "hp" -> <<"h1.product-title", "span.product-name", "title">>
      [] v = "viewsonic" -> <<"h1.product-name", "span.model-name", "title">>
      [] v = "lenovo" -> <<"span.product-name", "h2.product-name", "title">>
      [] v = "acer" -> <<"h1.product-name", "h2.product-name", "title">>
      [] OTHER -> <<"h1.product-name", "h2.product-name", "title">>

OptOf(S) == {None} \cup {Some(t) : t \in S}

\* the pages a vendor's site may serve: any of the three elements present
\* or not, with any of the texts
PagesOf(v) ==
    {[sel \in Selectors |->
        IF sel = SelectorsOf(v)[1] THEN a
        ELSE IF sel = SelectorsOf(v)[2] THEN b
        ELSE IF sel = "title" THEN t
        ELSE None] :
     a \in OptOf(ElementTexts), b \in OptOf(SecondTexts), t \in OptOf(TitleTexts)}

StatusCodes == {200, 404, 500}
Exceptions == {"ConnectionError", "ConnectTimeout", "ReadTimeout", "TooManyRedirects"}

\* everything one GET to a vendor's site can give back
GetResults(v) ==
    {Response(200, pg) : pg \in PagesOf(v)} \cup
    {Response(c, NoPage) : c \in StatusCodes \ {200}} \cup
    {Raised(e) : e \in Exceptions}

NoGet == Raised("not issued")

UserInfos == {[email |-> Some(<<"ann", "@vvisd.org">>), name |-> Some(<<"Ann">>)],
              [email |-> Some(<<"eve", "@gmail.com">>), name |-> Some(<<"Eve">>)],
              [email |-> None, name |-> None]}

OAuthStates == {<<"state-1">>}

(***************************************************************************)
(* State.  Each slot holds one request from its arrival to the delivery    *)
(* of its response.                                                        *)
(***************************************************************************)
VARIABLES
    session,    \* the browser's Flask session
    pc,         \* per slot: "idle", "fetching" (GET in flight), "responded",
                \* "served" (the application page or its redirect)
    vendor,     \* per slot: the route's vendor
    arg,        \* per slot: the request's tag argument
    tag,        \* per slot: the normalized identifier
    calls,      \* per slot: resolver invocations in this request
    gets,       \* per slot: GETs issued in this request
    got,        \* per slot: what the last GET gave back
    reply,      \* per slot: the response
    earlier     \* per slot: the response to the same request sent before

vars == <<session, pc, vendor, arg, tag, calls, gets, got, reply, earlier>>

Slots == 1..MaxSlots

Init ==
    /\ session = EmptySession
    /\ pc = [s \in Slots |-> "idle"]
    /\ vendor = [s \in Slots |-> "dell"]
    /\ arg = [s \in Slots |-> None]
    /\ tag = [s \in Slots |-> << >>]
    /\ calls = [s \in Slots |-> 0]
    /\ gets = [s \in Slots |-> 0]
    /\ got = [s \in Slots |-> NoGet]
    /\ reply = [s \in Slots |-> NoReply]
    /\ earlier = [s \in Slots |-> NoReply]

\* GET /login
login(st) ==
    /\ session' = [session EXCEPT !.oauth_state = Some(st)]
    /\ UNCHANGED <<pc, vendor, arg, tag, calls, gets, got, reply, earlier>>

\* GET /google/callback
Callback(has_error, token_ok, user_info) ==
    /\ session' = callback(session, has_error, token_ok, user_info)
    /\ UNCHANGED <<pc, vendor, arg, tag, calls, gets, got, reply, earlier>>

logout_emailonly ==
    /\ session' = [session EXCEPT !.user_email = None]
    /\ UNCHANGED <<pc, vendor, arg, tag, calls, gets, got, reply, earlier>>

\* GET /logout: session.clear()
logout ==
    /\ session' = EmptySession
    /\ UNCHANGED <<pc, vendor, arg, tag, calls, gets, got, reply, earlier>>

\* GET /lookup/<v>?tag=<a> handled in slot s, up to the response or to the
\* resolver's GET; before is the response to the same request sent before
Handle(s, v, a, before) ==
    LET t == Normalize(a)
        check == RouteCheck(v, t)
        fetches == v \in ScrapeVendors /\ VendorRegex(v, t)
    IN /\ vendor' = [vendor EXCEPT ![s] = v]
       /\ arg' = [arg EXCEPT ![s] = a]
       /\ earlier' = [earlier EXCEPT ![s] = before]
       /\ got' = [got EXCEPT ![s] = NoGet]
       /\ UNCHANGED session
       /\ IF ~login_required(session)
          THEN /\ reply' = [reply EXCEPT ![s] = LoginRedirect]
               /\ pc' = [pc EXCEPT ![s] = "responded"]
               /\ tag' = [tag EXCEPT ![s] = << >>]
               /\ calls' = [calls EXCEPT ![s] = 0]
               /\ gets' = [gets EXCEPT ![s] = 0]
          ELSE /\ tag' = [tag EXCEPT ![s] = t]
               /\ IF check = "missing"
                  THEN /\ reply' = [reply EXCEPT ![s] = ErrorReply(MissingError(v))]
                       /\ pc' = [pc EXCEPT ![s] = "responded"]
                       /\ calls' = [calls EXCEPT ![s] = 0]
                       /\ gets' = [gets EXCEPT ![s] = 0]
                  ELSE IF check = "invalid"
                  THEN /\ reply' = [reply EXCEPT ![s] = ErrorReply(InvalidError(v))]
                       /\ pc' = [pc EXCEPT ![s] = "responded"]
                       /\ calls' = [calls EXCEPT ![s] = 0]
                       /\ gets' = [gets EXCEPT ![s] = 0]
                  ELSE IF fetches
                  THEN /\ reply' = [reply EXCEPT ![s] = NoReply]
                       /\ pc' = [pc EXCEPT ![s] = "fetching"]
                       /\ calls' = [calls EXCEPT ![s] = 1]
                       /\ gets' = [gets EXCEPT ![s] = 1]
                  ELSE /\ reply' = [reply EXCEPT ![s] =
                                      RouteReply(v, t, Resolver(v, t, NoGet))]
                       /\ pc' = [pc EXCEPT ![s] = "responded"]
                       /\ calls' = [calls EXCEPT ![s] = 1]
                       /\ gets' = [gets EXCEPT ![s] = 0]

\* a request arrives at an idle slot
Lookup(s, v, a) ==
    /\ pc[s] = "idle"
    /\ Handle(s, v, a, NoReply)

GetReturns_retrytimeouts(s, r) ==
    /\ pc[s] = "fetching"
    /\ got' = [got EXCEPT ![s] = r]
    /\ IF IsTimeout(r)
       THEN UNCHANGED <<pc, reply>>
       ELSE /\ reply' = [reply EXCEPT ![s] =
                           RouteReply(vendor[s], tag[s], Resolver(vendor[s], tag[s], r))]
            /\ pc' = [pc EXCEPT ![s] = "responded"]
    /\ UNCHANGED <<session, vendor, arg, tag, calls, gets, earlier>>

GetReturns_sharedresponse(s, r) ==
    LET others == {o \in Slots \ {s} : got[o] # NoGet}
        response == IF others = {} THEN r ELSE got[CHOOSE o \in others : TRUE]
    IN /\ pc[s] = "fetching"
       /\ got' = [got EXCEPT ![s] = r]
       /\ reply' = [reply EXCEPT ![s] =
                      RouteReply(vendor[s], tag[s], Resolver(vendor[s], tag[s], response))]
       /\ pc' = [pc EXCEPT ![s] = "responded"]
       /\ UNCHANGED <<session, vendor, arg, tag, calls, gets, earlier>>

\* the resolver's GET returns or raises; the resolver and the route finish
GetReturns(s, r) ==
    /\ pc[s] = "fetching"
    /\ got' = [got EXCEPT ![s] = r]
    /\ IF RetriesGet(vendor[s], r)
       THEN /\ gets' = [gets EXCEPT ![s] = @ + 1]
            /\ UNCHANGED <<pc, reply>>
       ELSE /\ reply' = [reply EXCEPT ![s] =
                           RouteReply(vendor[s], tag[s], Resolver(vendor[s], tag[s], r))]
            /\ pc' = [pc EXCEPT ![s] = "responded"]
            /\ UNCHANGED gets
    /\ UNCHANGED <<session, vendor, arg, tag, calls, earlier>>

\* the client takes the response; the slot is free again
Deliver(s) ==
    /\ pc[s] \in {"responded", "served"}
    /\ pc' = [pc EXCEPT ![s] = "idle"]
    /\ vendor' = [vendor EXCEPT ![s] = "dell"]
    /\ arg' = [arg EXCEPT ![s] = None]
    /\ tag' = [tag EXCEPT ![s] = << >>]
    /\ calls' = [calls EXCEPT ![s] = 0]
    /\ gets' = [gets EXCEPT ![s] = 0]
    /\ got' = [got EXCEPT ![s] = NoGet]
    /\ reply' = [reply EXCEPT ![s] = NoReply]
    /\ earlier' = [earlier EXCEPT ![s] = NoReply]
    /\ UNCHANGED session

\* no lookup is in progress; this specification serves one request at a
\* time, in slot 1 (a lookup reads the session and writes nothing shared)
Quiet == \A s \in Slots : pc[s] = "idle"

Next ==
    \/ Quiet /\ \E st \in OAuthStates : login(st)
    \/ Quiet /\ \E e \in BOOLEAN, ok \in BOOLEAN, u \in UserInfos : Callback(e, ok, u)
    \/ Quiet /\ logout
    \/ Quiet /\ \E v \in Vendors : \E a \in TagArgsOf(v) : Lookup(1, v, a)
    \/ \E s \in Slots : \E r \in GetResults(vendor[s]) : GetReturns(s, r)
    \/ \E s \in Slots : Deliver(s)

Spec == Init /\ [][Next]_vars

\* requests.get(url, headers=headers, timeout=10) returns or raises: a GET
\* in flight does not stay in flight for ever
GetEnds == \E s \in Slots : \E r \in GetResults(vendor[s]) : GetReturns(s, r)

\* the requests of the specification with fairness: for each vendor a
\* request without tag and the accepted identifiers made of '123' and zeros
LiveArgsOf(v) ==
    {a \in TagArgsOf(v) :
        \/ ~a.some
        \/ Len(a.val) > 0 /\ a.val[1] = "1" /\ a.val[Len(a.val)] = "0"
              /\ VendorRegex(v, a.val)}

NextLive ==
    \/ Quiet /\ \E st \in OAuthStates : login(st)
    \/ Quiet /\ \E e \in BOOLEAN, ok \in BOOLEAN, u \in UserInfos : Callback(e, ok, u)
    \/ Quiet /\ logout
    \/ Quiet /\ \E v \in Vendors : \E a \in LiveArgsOf(v) : Lookup(1, v, a)
    \/ GetEnds
    \/ \E s \in Slots : Deliver(s)

SpecLive == Init /\ [][NextLive]_vars /\ WF_vars(GetEnds)

(***************************************************************************)
(* A second specification: a client sends a well-formed request, may log   *)
(* out and in again, and sends the same request once more; the slot keeps  *)
(* the first response next to the second.                                  *)
(***************************************************************************)
WellFormedArgsOf(v) ==
    {a \in TagArgsOf(v) : Normalize(a) = << >> \/ VendorRegex(v, Normalize(a))}

\* a page with a model name, a page without, a 404 and a timeout
FewGetResults(v) ==
    {Response(200, [NoPage EXCEPT ![SelectorsOf(v)[1]] = Some(<<"HP", " ", "EliteBook">>)]),
     Response(200, NoPage),
     Response(404, NoPage),
     Raised("ReadTimeout")}

\* the client sends the request of slot s again
Repeat(s) ==
    /\ pc[s] = "responded"
    /\ earlier[s] = NoReply
    /\ Handle(s, vendor[s], arg[s], reply[s])

NextRepeat ==
    \/ \E st \in OAuthStates : login(st)
    \/ \E e \in BOOLEAN, ok \in BOOLEAN, u \in UserInfos : Callback(e, ok, u)
    \/ logout
    \/ Quiet /\ \E v \in Vendors : \E a \in WellFormedArgsOf(v) : Lookup(1, v, a)
    \/ \E s \in Slots : \E r \in FewGetResults(vendor[s]) : GetReturns(s, r)
    \/ \E s \in Slots : Repeat(s)
    \/ \E s \in Slots : Deliver(s)

SpecRepeat == Init /\ [][NextRepeat]_vars

(***************************************************************************)
(* A third specification: the server handles requests concurrently (Flask  *)
(* serves each request in a thread of its own).  Every slot takes requests *)
(* on its own, and the steps of the slots interleave freely.               *)
(***************************************************************************)
\* the requests sent concurrently: a Dell tag that is valid, one that is
\* too short, no tag at all, and two CyberPower serial numbers
ConcurrentRequests ==
    {<<"dell", Some(Pad(<<"1", "2", "3">>, 7))>>,
     <<"dell", Some(Pad(<<"Z", "Z", "Z">>, 5))>>,
     <<"dell", None>>,
     <<"cyberpower", Some(Pad(<<"c", "p", "1">>, 12))>>,
     <<"cyberpower", Some(Pad(<<"Z", "Z", "Z">>, 12))>>}

NextConcurrent ==
    \/ \E st \in OAuthStates : login(st)
    \/ \E e \in BOOLEAN, ok \in BOOLEAN, u \in UserInfos : Callback(e, ok, u)
    \/ logout
    \/ \E s \in Slots : \E q \in ConcurrentRequests : Lookup(s, q[1], q[2])
    \/ \E s \in Slots : \E r \in FewGetResults(vendor[s]) : GetReturns(s, r)
    \/ \E s \in Slots : Deliver(s)

SpecConcurrent == Init /\ [][NextConcurrent]_vars

(***************************************************************************)
(* Properties.                                                             *)
(***************************************************************************)
\* slot s holds a request the route function itself handles (the login
\* gate let it through)
Admitted(s) == pc[s] # "idle" /\ reply[s] # LoginRedirect

Responded(s) == pc[s] = "responded" /\ reply[s] # LoginRedirect

\* the length and character rules as the specification's table words them
RuleRun(s, class, lo, hi) == Len(s) >= lo /\ Len(s) <= hi /\ AllIn(s, class)

DocumentedRule(v, s) ==
    CASE v = "dell" -> RuleRun(s, AlnumAnyCase, 7, 7)
      [] v \in {"hp", "viewsonic"} -> RuleRun(s, AlnumAnyCase, 10, 12)
      [] v = "juniper" -> RuleRun(s, AlnumAnyCase, 12, 12)
      [] v = "cyberpower" ->
            RuleRun(s, AlnumAnyCase, 12, 12) \/ RuleRun(s, AlnumAnyCase, 16, 16)
      [] v = "brother" -> RuleRun(s, AlnumAnyCase, 15, 15)
      [] v = "apple" ->
            RuleRun(s, AlnumAnyCase, 12, 12) \/ RuleRun(s, AlnumAnyCase, 17, 17)
      [] v = "acer" ->
            RuleRun(s, AlnumAnyCase, 22, 22) \/ RuleRun(s, AsciiDigit, 11, 12)
      [] v = "lenovo" -> RuleRun(s, AlnumAnyCase, 8, 12)
      [] v = "cisco" ->
            /\ Len(s) = 11
            /\ AllIn(SubSeq(s, 1, 3), AsciiUpper)
            /\ AllIn(SubSeq(s, 4, 11), AsciiDigit)
      [] v = "apc" -> RuleRun(s, AlnumUpper, 12, 12)
      [] v = "microsoft" ->
            \/ RuleRun(s, AsciiDigit, 12, 12)
            \/ RuleRun(s, AsciiDigit, 16, 16)
            \/ RuleRun(s, AlnumUpper, 12, 12)
      [] v = "samsung" ->
            RuleRun(s, AlnumUpper, 11, 11) \/ RuleRun(s, AlnumUpper, 15, 15)
      [] v = "vizio" -> RuleRun(s, AlnumUpper, 14, 14)
      [] v = "tcl" -> RuleRun(s, AlnumUpper, 12, 14)

\* C1: a non-empty identifier that fails the vendor's documented format
\* rule ends the lookup with the vendor's invalid-format error and status
\* 400; the resolver is not called and no GET is issued.
C1_InvalidFormatStops ==
    \A s \in Slots :
        (/\ Admitted(s)
         /\ Normalize(arg[s]) # << >>
         /\ ~DocumentedRule(vendor[s], Normalize(arg[s])))
        => /\ pc[s] = "responded"
           /\ reply[s] = ErrorReply(InvalidError(vendor[s]))
           /\ reply[s].status = 400
           /\ calls[s] = 0
           /\ gets[s] = 0
           /\ got[s] = NoGet

\* C2: the validator accepts a non-empty identifier exactly when it meets
\* the vendor's documented length and character rule.
C2_ValidatorIsDocumentedRule ==
    \A s \in Slots :
        (Admitted(s) /\ tag[s] # << >>)
        => (calls[s] = 1 <=> DocumentedRule(vendor[s], tag[s]))

\* C3: an empty or absent identifier ends the lookup with the
\* missing-identifier error and status 400, not with the invalid-format
\* error; the resolver is not called and no GET is issued.
C3_MissingIdentifier ==
    \A s \in Slots :
        (Admitted(s) /\ Normalize(arg[s]) = << >>)
        => /\ pc[s] = "responded"
           /\ reply[s] = ErrorReply(MissingError(vendor[s]))
           /\ reply[s] # ErrorReply(InvalidError(vendor[s]))
           /\ reply[s].status = 400
           /\ calls[s] = 0
           /\ gets[s] = 0
           /\ got[s] = NoGet

\* a request without a tag argument was answered
C3_Witness ==
    \E s \in Slots :
        /\ Responded(s)
        /\ arg[s] = None
        /\ vendor[s] = "dell"
        /\ reply[s].status = 400

\* C4: a response says success exactly when it carries a non-empty model
\* name, and that is exactly when the resolver returned a non-empty model
\* name; an unsuccessful response carries no model name.
C4_MatchedIffModelName ==
    \A s \in Slots :
        pc[s] = "responded"
        => /\ reply[s].success = "true" <=> Truthy(reply[s].model_name)
           /\ reply[s].success # "true" => reply[s].model_name = None
           /\ calls[s] = 1 =>
                LET ret == Resolver(vendor[s], tag[s], got[s])
                IN /\ reply[s].success = "true" <=> Truthy(ret.model_name)
                   /\ reply[s].success = "true" => reply[s].model_name = ret.model_name

\* a resolver returned the empty string as model name, and the response is
\* unsuccessful
C4_Witness ==
    \E s \in Slots :
        /\ Responded(s)
        /\ calls[s] = 1
        /\ Resolver(vendor[s], tag[s], got[s]).model_name = Some(<< >>)
        /\ reply[s].success = "false"

\* neither of the vendor's two element selectors finds an element with text
NoSelectorText(v, page) ==
    \A i \in {1, 2} :
        LET e == page[SelectorsOf(v)[i]]
        IN ~e.some \/ strip(e.val) = << >>

\* slot s holds an Acer lookup whose GET succeeded and found no text
AcerEmptyParse(s) ==
    /\ Responded(s)
    /\ vendor[s] = "acer"
    /\ gets[s] = 1
    /\ ~IsRequestException(got[s])
    /\ NoSelectorText("acer", got[s].page)

AcerSerialLabel(t) == <<"Acer Product (Serial: ">> \o SubSeq(t, 1, 5) \o <<"...)">>

C6_AcerFetchFailureLabel ==
    \A s \in Slots :
        (/\ Responded(s)
         /\ vendor[s] = "acer"
         /\ gets[s] = 1
         /\ IsRequestException(got[s])
         /\ DocumentedRule("acer", tag[s])
         /\ Len(tag[s]) = 22)
        => reply[s] =
             Reply(200, "true", "serial_number", Some(tag[s]),
                   Some(AcerSerialLabel(tag[s])),
                   Some(<<"Model inferred from serial number prefix (Web scraping failed). Please verify.">>),
                   None, "")

\* the GET of a 22-character Acer lookup timed out
C6_Witness ==
    \E s \in Slots :
        /\ Responded(s)
        /\ vendor[s] = "acer"
        /\ Len(tag[s]) = 22
        /\ got[s] = Raised("ReadTimeout")
        /\ reply[s].status = 200

HasDiagnostic(rep) ==
    \/ rep.message.some /\ rep.message.val # << >>
    \/ rep.error.some /\ rep.error.val # << >>

\* C7: every lookup the route handles ends in a JSON response with status
\* 200, 400 or 404 that carries a non-empty diagnostic (message or error),
\* whatever the vendor, the identifier and the result of the GET; no
\* exception leaves the resolver (which Flask would answer with 500).
C7_AlwaysAnOutcome ==
    \A s \in Slots :
        Responded(s)
        => /\ reply[s].status \in {200, 400, 404}
           /\ HasDiagnostic(reply[s])
           /\ calls[s] = 1 => ~Resolver(vendor[s], tag[s], got[s]).raised

\* a GET failed with a request exception that is neither an HTTP error, a
\* connection error nor a timeout, and the lookup answered
C7_Witness ==
    \E s \in Slots :
        /\ Responded(s)
        /\ vendor[s] = "dell"
        /\ got[s] = Raised("TooManyRedirects")
        /\ reply[s].status = 404
        /\ HasDiagnostic(reply[s])

\* C8: a lookup issues at most one GET, only for the five scrape vendors;
\* once the GET has returned or failed the lookup has responded and no
\* further GET is in flight.
C8_AtMostOneGet ==
    \A s \in Slots :
        /\ gets[s] <= 1
        /\ gets[s] = 1 => vendor[s] \in {"dell", "hp", "lenovo", "acer", "viewsonic"}
        /\ got[s] # NoGet => pc[s] = "responded" /\ gets[s] = 1

\* a GET failed and the lookup has answered after that single GET
C8_Witness ==
    \E s \in Slots :
        /\ Responded(s)
        /\ vendor[s] = "lenovo"
        /\ IsRequestException(got[s])
        /\ gets[s] = 1

InferenceVendors == {"apple", "cisco", "tcl", "vizio", "samsung", "microsoft",
                     "apc", "brother", "cyberpower", "juniper"}

TransportFailed(s) == gets[s] = 1 /\ IsRequestException(got[s])

\* C10, as claimed: 200 for a match, 400 for a missing or malformed
\* identifier, 404 for a resolver no-match, a 5xx status when the GET
\* failed in transport.
C10_StatusByOutcomeKind ==
    \A s \in Slots :
        Responded(s)
        => /\ reply[s].success = "true" => reply[s].status = 200
           /\ calls[s] = 0 => reply[s].status = 400
           /\ (calls[s] = 1 /\ reply[s].success # "true" /\ ~TransportFailed(s))
                => reply[s].status = 404
           /\ (calls[s] = 1 /\ reply[s].success # "true" /\ TransportFailed(s))
                => reply[s].status >= 500

\* C10, amended: 200 for a match, 400 for a missing or malformed
\* identifier, 404 for every resolver no-match, a failed GET included; no
\* lookup response has a 5xx status.
C10_StatusCodes ==
    \A s \in Slots :
        Responded(s)
        => /\ reply[s].status < 500
           /\ reply[s].status =
                IF calls[s] = 0 THEN 400
                ELSE IF Truthy(Resolver(vendor[s], tag[s], got[s]).model_name) THEN 200
                ELSE 404
           /\ (TransportFailed(s) /\ reply[s].success # "true") => reply[s].status = 404

\* an HP lookup whose GET timed out was answered 404
C10_Witness ==
    \E s \in Slots :
        /\ Responded(s)
        /\ vendor[s] = "hp"
        /\ got[s] = Raised("ReadTimeout")
        /\ reply[s].status = 404

\* the identifier of slot s as the specification normalises it: upper-cased
\* and trimmed
TrimmedUpper(s) == upper(strip(IF arg[s].some THEN arg[s].val ELSE << >>))

\* slot s holds a raw identifier that is a valid identifier with whitespace
\* before or after it
PaddedValid(s) ==
    /\ Admitted(s)
    /\ arg[s].some
    /\ arg[s].val # strip(arg[s].val)
    /\ DocumentedRule(vendor[s], TrimmedUpper(s))

\* C11: a valid identifier surrounded by whitespace is accepted and
\* resolved exactly like the identifier itself: the resolver is called and
\* the response is the one of the trimmed, upper-cased identifier.
C11_TrimmedBeforeValidation ==
    \A s \in Slots :
        PaddedValid(s)
        => /\ calls[s] = 1
           /\ pc[s] = "responded" =>
                reply[s] = RouteReply(vendor[s], TrimmedUpper(s),
                                      Resolver(vendor[s], TrimmedUpper(s), got[s]))

\* the diagnostic text of a response: 'message' of a successful one, 'error'
\* of an unsuccessful one
DiagnosticOf(rep) == IF rep.message.some THEN rep.message ELSE rep.error

\* C12: the response of a lookup that reached the resolver carries the
\* resolver's strings unchanged: its diagnostic is the resolver's message,
\* under exactly one of the keys 'message' and 'error', and its model name
\* is the resolver's when the resolver returned a non-empty one and is
\* absent otherwise; the identifier echoed is the one given to the resolver.
C12_OutcomeUnchanged ==
    \A s \in Slots :
        (Responded(s) /\ calls[s] = 1)
        => LET ret == Resolver(vendor[s], tag[s], got[s])
           IN /\ DiagnosticOf(reply[s]) = Some(ret.message)
              /\ reply[s].message.some # reply[s].error.some
              /\ reply[s].model_name =
                   IF Truthy(ret.model_name) THEN ret.model_name ELSE None
              /\ reply[s].id = Some(tag[s])

\* a Dell lookup whose GET was answered 404 carries the resolver's
\* not-found text as its error
C12_Witness ==
    \E s \in Slots :
        /\ Responded(s)
        /\ vendor[s] = "dell"
        /\ calls[s] = 1
        /\ got[s].exc = "none" /\ got[s].status_code = 404
        /\ reply[s].error = Some(Resolver("dell", tag[s], got[s]).message)
        /\ reply[s].status = 404

\* slot s holds an answered lookup of vendor v for an identifier that meets
\* the vendor's documented rule
ValidLookup(s, v) ==
    /\ Responded(s)
    /\ vendor[s] = v
    /\ DocumentedRule(v, tag[s])

PrefixDiagnostic(prefix) ==
    <<"Model inferred from serial number prefix '">> \o prefix \o <<"'. Please verify.">>

\* C13: a valid CyberPower identifier whose first 3 characters are a table
\* key gets that entry and a diagnostic naming the 3 characters; otherwise
\* one whose first 2 characters are a key gets that entry and a diagnostic
\* naming the 2 characters.  'CP1...' gives 'CyberPower CP1500PFCLCD', never
\* 'CyberPower CP Series UPS'.
C13_CyberPowerLongestPrefix ==
    \A s \in Slots :
        ValidLookup(s, "cyberpower")
        => LET p3 == SubSeq(tag[s], 1, 3)
               p2 == SubSeq(tag[s], 1, 2)
           IN /\ p3 \in DOMAIN CYBERPOWER_prefix_to_model
                   => /\ reply[s].success = "true"
                      /\ reply[s].model_name = Some(CYBERPOWER_prefix_to_model[p3])
                      /\ reply[s].message = Some(PrefixDiagnostic(p3))
              /\ (p3 \notin DOMAIN CYBERPOWER_prefix_to_model
                    /\ p2 \in DOMAIN CYBERPOWER_prefix_to_model)
                   => /\ reply[s].success = "true"
                      /\ reply[s].model_name = Some(CYBERPOWER_prefix_to_model[p2])
                      /\ reply[s].message = Some(PrefixDiagnostic(p2))
              /\ p3 = <<"C", "P", "1">>
                   => /\ reply[s].model_name = Some(<<"CyberPower CP1500PFCLCD">>)
                      /\ reply[s].model_name # Some(<<"CyberPower CP Series UPS">>)

\* the raw identifier 'cp1000000000' was resolved to the CP1 entry
C13_Witness ==
    \E s \in Slots :
        /\ ValidLookup(s, "cyberpower")
        /\ Len(tag[s]) = 12
        /\ SubSeq(arg[s].val, 1, 3) = <<"c", "p", "1">>
        /\ reply[s].model_name = Some(<<"CyberPower CP1500PFCLCD">>)
        /\ reply[s].message = Some(PrefixDiagnostic(<<"C", "P", "1">>))

CatchAllVendors == {"cisco", "tcl", "vizio", "samsung", "microsoft", "apc"}

\* the generic label of a vendor that has one
GenericLabel(v) ==
    CASE v = "cisco" -> <<"Cisco Network Device (Inferred)">>
      [] v = "tcl" -> <<"TCL TV/Display (Inferred)">>
      [] v = "vizio" -> <<"Vizio Display/TV (Inferred)">>
      [] v = "samsung" -> <<"Samsung Device (Inferred)">>
      [] v = "microsoft" -> <<"Microsoft Surface Device (Inferred)">>
      [] v = "apc" -> <<"APC UPS/Power Device (Inferred)">>

\* the table entry for identifier t of a catch-all vendor, if it has one
TableHit(v, t) ==
    CASE v = "cisco" /\ SubSeq(t, 1, 3) \in DOMAIN CISCO_prefix_to_model
            -> Some(CISCO_prefix_to_model[SubSeq(t, 1, 3)])
      [] v = "vizio" /\ SubSeq(t, 1, 4) \in DOMAIN VIZIO_model_map
            -> Some(VIZIO_model_map[SubSeq(t, 1, 4)])
      [] v = "apc" /\ SubSeq(t, 1, 2) \in DOMAIN APC_prefix_to_model
            -> Some(APC_prefix_to_model[SubSeq(t, 1, 2)])
      [] OTHER -> None

\* C14: for Cisco, TCL, Vizio, Samsung, Microsoft and APC every identifier
\* that passes validation is matched (status 200): with the table entry when
\* its prefix is a table key (Cisco 'FOX' gives the Foxconn entry), with the
\* vendor's generic '(Inferred)' label otherwise (Cisco 'ZZZ').
C14_CatchAllAlwaysMatches ==
    \A s \in Slots :
        (Responded(s) /\ vendor[s] \in CatchAllVendors /\ calls[s] = 1)
        => /\ reply[s].success = "true"
           /\ reply[s].status = 200
           /\ reply[s].model_name =
                IF TableHit(vendor[s], tag[s]).some
                THEN TableHit(vendor[s], tag[s])
                ELSE Some(GenericLabel(vendor[s]))
           /\ (vendor[s] = "cisco" /\ SubSeq(tag[s], 1, 3) = <<"F", "O", "X">>)
                => reply[s].model_name =
                     Some(<<"Cisco Product (Foxconn - Common for Switches/Routers)">>)
           /\ (vendor[s] = "cisco" /\ SubSeq(tag[s], 1, 3) = <<"Z", "Z", "Z">>)
                => reply[s].model_name = Some(<<"Cisco Network Device (Inferred)">>)

\* Cisco 'ZZZ00000000' was answered with the generic label
C14_Witness ==
    \E s \in Slots :
        /\ ValidLookup(s, "cisco")
        /\ SubSeq(tag[s], 1, 3) = <<"Z", "Z", "Z">>
        /\ reply[s].success = "true"
        /\ reply[s].model_name = Some(<<"Cisco Network Device (Inferred)">>)

NoGenericVendors == {"apple", "brother", "juniper"}

\* the prefix table of a vendor without a generic label, and the identifier's
\* prefix that is looked up in it
StrictTable(v) ==
    CASE v = "apple" -> APPLE_prefix_to_model
      [] v = "brother" -> BROTHER_prefix_to_model
      [] v = "juniper" -> JUNIPER_prefix_to_model

StrictPrefix(v, t) == SubSeq(t, 1, IF v = "apple" THEN 3 ELSE 2)

CouldNotInfer(v) ==
    CASE v = "apple" -> <<"Could not infer Apple model from serial number prefix.">>
      [] v = "brother" -> <<"Could not infer Brother model from serial number prefix.">>
      [] v = "juniper" -> <<"Could not infer Juniper model from serial number prefix.">>

\* C15: for Apple, Brother and Juniper a valid identifier whose prefix is not
\* a table key is unmatched, status 404, with the vendor's 'Could not infer'
\* diagnostic and no model name; a matched response of these vendors always
\* carries a table entry, never a generic label.
C15_NoGenericFallback ==
    \A s \in Slots :
        (Responded(s) /\ vendor[s] \in NoGenericVendors /\ calls[s] = 1)
        => LET v == vendor[s]
               hit == StrictPrefix(v, tag[s]) \in DOMAIN StrictTable(v)
           IN /\ (DocumentedRule(v, tag[s]) /\ ~hit)
                   => /\ reply[s].success = "false"
                      /\ reply[s].status = 404
                      /\ reply[s].model_name = None
                      /\ reply[s].error = Some(CouldNotInfer(v))
              /\ reply[s].success = "true"
                   => /\ hit
                      /\ reply[s].model_name = Some(StrictTable(v)[StrictPrefix(v, tag[s])])

\* Juniper 'ZZZ000000000' (unknown prefix 'ZZ') was answered 404
C15_Witness ==
    \E s \in Slots :
        /\ ValidLookup(s, "juniper")
        /\ SubSeq(tag[s], 1, 2) = <<"Z", "Z">>
        /\ reply[s].status = 404
        /\ reply[s].error = Some(CouldNotInfer("juniper"))

\* the title 'Support for X | Dell US'
DellTitleOf(X) ==
    <<"Support", " ", "for", " ">> \o X \o <<" ", "|", " ", "Dell", " ", "US">>

\* t is such a title for a name X (X not empty, no blank at either end)
IsDellTitle(t) ==
    /\ Len(t) >= 11
    /\ t = DellTitleOf(SubSeq(t, 5, Len(t) - 6))
    /\ strip(SubSeq(t, 5, Len(t) - 6)) = SubSeq(t, 5, Len(t) - 6)

DellTitleName(t) == SubSeq(t, 5, Len(t) - 6)

\* slot s holds an answered Dell lookup whose GET succeeded with a page
\* without the primary element and with a title 'Support for X | Dell US'
DellTitlePage(s) ==
    /\ Responded(s)
    /\ vendor[s] = "dell"
    /\ calls[s] = 1
    /\ ~IsRequestException(got[s])
    /\ ~got[s].page["h1.product-name"].some
    /\ got[s].page["title"].some
    /\ IsDellTitle(got[s].page["title"].val)

AloneReply(v, a, r) ==
    LET t == Normalize(a)
    IN CASE RouteCheck(v, t) = "missing" -> ErrorReply(MissingError(v))
         [] RouteCheck(v, t) = "invalid" -> ErrorReply(InvalidError(v))
         [] OTHER -> RouteReply(v, t, Resolver(v, t, r))

\* C17: whatever other lookups are in progress or have been answered, the
\* response of a lookup is the one the same vendor, identifier and fetch
\* result give when the lookup runs alone.
C17_LookupsIndependent ==
    \A s \in Slots :
        Responded(s) => reply[s] = AloneReply(vendor[s], arg[s], got[s])

\* two Dell lookups of the same tag are answered at the same time, one
\* after a page with a model name and one after a timeout, with different
\* responses
C17_Witness ==
    \E s \in Slots, o \in Slots :
        /\ s # o
        /\ Responded(s) /\ Responded(o)
        /\ vendor[s] = "dell" /\ vendor[o] = "dell"
        /\ arg[s] = arg[o]
        /\ got[s] = Raised("ReadTimeout")
        /\ reply[o].success = "true"
        /\ reply[s].status = 404

\* C18: a lookup that reached its GET is answered once the GET has returned
\* or failed, every other lookup is answered in the step that receives it;
\* a request in progress has a response exactly when it is answered, and the
\* response, once produced, is not replaced.
C18_EveryLookupAnswers ==
    /\ \A s \in Slots : (pc[s] = "fetching") ~> (pc[s] = "responded")
    /\ [](\A s \in Slots : (pc[s] = "responded") <=> (reply[s] # NoReply))
    /\ [][\A s \in Slots :
            (reply[s] # NoReply /\ pc'[s] # "idle") => reply'[s] = reply[s]]_vars

\* an HP lookup was answered after its GET
C18_Witness ==
    \E s \in Slots :
        /\ Responded(s)
        /\ vendor[s] = "hp"
        /\ gets[s] = 1
        /\ got[s] # NoGet
        /\ reply[s] # NoReply

\* an element that exists and has text other than whitespace
NonEmptyText(e) == e.some /\ strip(e.val) # << >>

\* an element that exists and has no text but whitespace
EmptyText(e) == e.some /\ strip(e.val) = << >>

\* slot s holds an answered lookup of a scrape vendor whose GET succeeded
ScrapedPage(s) ==
    /\ Responded(s)
    /\ vendor[s] \in {"dell", "hp", "lenovo", "acer", "viewsonic"}
    /\ calls[s] = 1
    /\ ~IsRequestException(got[s])

\* the title matches the vendor's title pattern with a non-empty group
TitleYields(v, title) ==
    /\ title.some
    /\ CASE v = "dell" -> IsDellTitle(title.val)
         [] v = "hp" -> NonEmptyText(SearchHPTitle(title.val))
         [] v = "viewsonic" -> NonEmptyText(SearchViewSonicTitle(title.val))
         [] OTHER -> FALSE

\* C19: on a successful fetch an element that exists with whitespace-only
\* text does not stop the search: when the primary element is empty and the
\* secondary has text, or when the elements present are empty and the title
\* matches, the lookup is matched; and so it is when the primary has text.
C19_FirstNonEmptyStepWins ==
    \A s \in Slots :
        ScrapedPage(s)
        => LET first == got[s].page[SelectorsOf(vendor[s])[1]]
               second == got[s].page[SelectorsOf(vendor[s])[2]]
               title == got[s].page["title"]
           IN /\ NonEmptyText(first) => reply[s].success = "true"
              /\ (~NonEmptyText(first) /\ NonEmptyText(second))
                   => reply[s].success = "true"
              /\ (~NonEmptyText(first) /\ ~NonEmptyText(second)
                    /\ TitleYields(vendor[s], title))
                   => reply[s].success = "true"

\* the failed fetches: an HTTP error status, or an exception of requests
Failures ==
    {Response(c, NoPage) : c \in StatusCodes \ {200}} \cup {Raised(e) : e \in Exceptions}

\* the failure kinds of the specification; a timeout while connecting is
\* both a connection error and a timeout and is left unclassified here
FailureKind(r) ==
    CASE r.exc = "none" /\ r.status_code = 404 -> "not-found"
      [] r.exc = "none" /\ r.status_code # 404 -> "http"
      [] r.exc = "ConnectionError" -> "connection"
      [] r.exc = "ReadTimeout" -> "timeout"
      [] r.exc = "ConnectTimeout" -> "unclassified"
      [] OTHER -> "other"

\* slot s holds an answered lookup of a scrape vendor whose GET failed
ScrapeFailed(s) ==
    /\ Responded(s)
    /\ vendor[s] \in {"dell", "hp", "lenovo", "acer", "viewsonic"}
    /\ calls[s] = 1
    /\ gets[s] = 1
    /\ IsRequestException(got[s])

IdentifierName(v) == IF v = "dell" THEN "Service Tag" ELSE "Serial Number"

\* the diagnostic Dell, HP and ViewSonic give for a failed fetch
ClassifiedDiagnostic(v, r) ==
    CASE r.exc = "none" /\ r.status_code = 404 ->
            <<IdentifierName(v), " found, but product page not found (404). It might be too old or invalid.">>
      [] r.exc = "none" /\ r.status_code # 404 -> <<"HTTP Error: ">> \o ExcText(r)
      [] r.exc \in {"ConnectionError", "ConnectTimeout"} -> <<"Error Connecting: ">> \o ExcText(r)
      [] r.exc = "ReadTimeout" -> <<"Timeout Error: ">> \o ExcText(r)
      [] OTHER -> <<"An unexpected error occurred: ">> \o ExcText(r)

NotFoundText(v) ==
    CASE v = "lenovo" -> <<"Model name element not found on Lenovo support page.">>
      [] v = "acer" -> <<"Model name element not found on Acer support page.">>
      [] OTHER -> <<"Could not find the product model name on the page.">>

\* C21: a successful fetch on which no extraction step yields non-empty text
\* ends unmatched with the vendor's not-found explanation, and no unmatched
\* response carries the diagnostic 'Model name scraped successfully.'.
C21_EmptyParseIsNotFound ==
    \A s \in Slots :
        /\ ScrapedPage(s)
            => LET first == got[s].page[SelectorsOf(vendor[s])[1]]
                   second == got[s].page[SelectorsOf(vendor[s])[2]]
                   title == got[s].page["title"]
               IN (~NonEmptyText(first) /\ ~NonEmptyText(second)
                     /\ ~TitleYields(vendor[s], title))
                  => /\ reply[s].success = "false"
                     /\ reply[s].error = Some(NotFoundText(vendor[s]))
        /\ (Responded(s) /\ reply[s].success = "false")
            => reply[s].error # Some(<<"Model name scraped successfully.">>)

\* C22: in the Dell, HP and ViewSonic resolvers a failed fetch that is a
\* timeout, a timeout while connecting included, is reported with the
\* diagnostic 'Timeout Error: ...' and not with 'Error Connecting: ...'.
C22_TimeoutsReportedAsTimeouts ==
    \A s \in Slots :
        (/\ ScrapeFailed(s)
         /\ vendor[s] \in {"dell", "hp", "viewsonic"}
         /\ got[s].exc \in {"ReadTimeout", "ConnectTimeout"})
        => /\ reply[s].error.some
           /\ reply[s].error.val[1] = "Timeout Error: "
           /\ reply[s].error.val[1] # "Error Connecting: "


\* C23: a model name returned on an HP match never starts with 'HP '
\* followed by the product name, whichever extraction step (selector or
\* page title) produced it, and a model name returned on a Dell match
\* never starts with 'Support for '.
C23_VendorPrefixRemoved ==
    \A s \in Slots :
        (Responded(s) /\ reply[s].success = "true" /\ gets[s] > 0)
        => LET name == reply[s].model_name.val
           IN /\ vendor[s] = "hp"
                  => ~(Len(name) > 2 /\ SubSeq(name, 1, 2) = <<"HP", " ">>)
              /\ vendor[s] = "dell"
                  => ~(Len(name) > 4
                       /\ SubSeq(name, 1, 4) = <<"Support", " ", "for", " ">>)


\* the identifier of a request as sent, and in upper case
RawId(s) == IF arg[s].some THEN arg[s].val ELSE << >>
UpperArg(s) == IF arg[s].some THEN Some(upper(arg[s].val)) ELSE None

\* C24: the lookup is case-insensitive in the identifier: the response for
\* an identifier is the response for its upper-case form, the identifier
\* echoed in the response and handed to the resolver (which embeds it in
\* the vendor URL) is the upper-case form, and normalizing twice gives the
\* same as normalizing once.
C24_CaseInsensitive ==
    \A s \in Slots :
        Responded(s)
        => /\ reply[s] = AloneReply(vendor[s], UpperArg(s), got[s])
           /\ tag[s] = upper(RawId(s))
           /\ reply[s].id.some => reply[s].id.val = upper(RawId(s))
           /\ Normalize(Some(Normalize(arg[s]))) = Normalize(arg[s])

\* a lower-case identifier has been looked up and matched, and the response
\* echoes it in upper case
C24_Witness ==
    \E s \in Slots :
        /\ Responded(s)
        /\ RawId(s) # upper(RawId(s))
        /\ reply[s].success = "true"
        /\ reply[s].id = Some(upper(RawId(s)))


\* C25: for Acer, when the fetch fails every identifier the validator
\* accepted is matched, 22-character identifiers with the 'Serial:' label
\* and 11-12 digit SNIDs with the 'SNID:' label; 'Request failed' is never
\* the outcome of a validated Acer lookup.
C25_AcerFailedFetchAlwaysMatches ==
    \A s \in Slots :
        (Responded(s) /\ vendor[s] = "acer" /\ gets[s] > 0
           /\ (got[s].exc # "none" \/ got[s].status_code >= 400))
        => /\ reply[s].success = "true"
           /\ reply[s].model_name.some
           /\ reply[s].model_name.val[1]
                 \in {"Acer Product (Serial: ", "Acer Product (SNID: "}
           /\ ~(reply[s].error.some /\ reply[s].error.val[1] = "Request failed: ")


\* ---------------------------------------------------------------------
\* The three API files
\* ---------------------------------------------------------------------

Files == {"src/device_lookup_api.py",
          "src/Uploaded File_ index (3)/device_lookup_api.py",
          "src/dell_lookup_api.py"}

\* the vendors a file has a validator, a resolver and a route for
VendorsIn(f) ==
    IF f = "src/dell_lookup_api.py"
    THEN {"dell", "hp", "viewsonic", "juniper", "cyberpower"}
    ELSE Vendors

\* the return statement of the status route of a file (home, or status in
\* the SSO-gated file), as code and double quotes
StatusReturn(f) ==
    IF f = "src/device_lookup_api.py"
    THEN <<"return ", "\"", "Inventory Lookup API is running and secured.", "\"">>
    ELSE <<"return ", "\"", "Inventory Lookup API is running. Endpoints: ...",
           "\"", "\"">>

\* Python's tokenizer on one line: a double quote opens a string literal
\* and the next one closes it; a line that ends inside a literal is a
\* SyntaxError (unterminated string literal)
RECURSIVE InString(_, _)
InString(line, open) ==
    IF line = << >> THEN open
    ELSE InString(Tail(line), IF Head(line) = "\"" THEN ~open ELSE open)

\* the file compiles, so the module can be imported and its routes exist
Compiles(f) == ~InString(StatusReturn(f), FALSE)

\* only the SSO-gated file decorates its routes with login_required
Gated(f) == f = "src/device_lookup_api.py"

\* the response of file f to a lookup of vendor v with argument a and fetch
\* result r in session sess; a file that does not compile serves nothing
FileReply(f, sess, v, a, r) ==
    IF ~Compiles(f) THEN NoReply
    ELSE IF Gated(f) /\ ~login_required(sess) THEN LoginRedirect
    ELSE AloneReply(v, a, r)

\* C26: for every vendor present in more than one file, every identifier
\* and every fetch result, each file that has the vendor gives the same
\* response, the SSO-gated file when the session is logged in.
C26_FilesAgree ==
    \A s \in Slots :
        Responded(s)
        => \A f \in Files :
              vendor[s] \in VendorsIn(f)
              => FileReply(f, session, vendor[s], arg[s], got[s]) = reply[s]


(***************************************************************************)
(* A fourth specification: the SSO routes and the protected routes.  The   *)
(* session routes are served whatever else is in progress; the lookups     *)
(* are a request without tag, a malformed one and the accepted             *)
(* identifiers made of '123' and zeros.                                    *)
(***************************************************************************)

\* session.get("user_name", "Guest")
\* the status of the response of /google/callback
callback_status(has_error, token_ok, user_info) ==
    IF has_error THEN 400
    ELSE IF ~token_ok THEN 500
    ELSE IF ~EndsWithDomain(EmailOf(user_info)) THEN 403
    ELSE 302

UserNameOf(sess) == IF sess.user_name.some THEN sess.user_name.val ELSE <<"Guest">>

\* index.html with the user's name put in the title
AppPage(sess) ==
    Reply(200, "absent", "", None, None,
          Some(<<"Van Vleck ISD - Inventory (">> \o UserNameOf(sess) \o <<")">>),
          None, "")

IndexNotFound ==
    Reply(500, "absent", "", None, None, None,
          Some(<<"Error: index.html not found on the server.">>), "")

\* GET / or GET /app handled in slot s
serve_app(s, index_found) ==
    /\ pc[s] = "idle"
    /\ pc' = [pc EXCEPT ![s] = "served"]
    /\ reply' = [reply EXCEPT ![s] =
                    IF ~login_required(session) THEN LoginRedirect
                    ELSE IF index_found THEN AppPage(session)
                    ELSE IndexNotFound]
    /\ UNCHANGED <<session, vendor, arg, tag, calls, gets, got, earlier>>

SSOArgsOf(v) == LiveArgsOf(v) \cup {Some(<<"-">>)}

NextSSO ==
    \/ \E st \in OAuthStates : login(st)
    \/ \E e \in BOOLEAN, ok \in BOOLEAN, u \in UserInfos : Callback(e, ok, u)
    \/ logout
    \/ \E s \in Slots : \E found \in BOOLEAN : serve_app(s, found)
    \/ Quiet /\ \E v \in Vendors : \E a \in SSOArgsOf(v) : Lookup(1, v, a)
    \/ GetEnds
    \/ \E s \in Slots : Deliver(s)

SpecSSO == Init /\ [][NextSSO]_vars

\* a request arrives at slot s in this step
Arrives(s) == pc[s] = "idle" /\ pc'[s] # "idle"

\* C27: a request to a lookup route, to / or to /app from a session without
\* user_email is answered with a redirect to /login, and neither
\* validation nor a resolver call nor a request to the vendor is made for
\* it.
C27_UnauthenticatedRedirected ==
    [][\A s \in Slots :
          (Arrives(s) /\ ~session.user_email.some)
          => /\ reply'[s] = LoginRedirect
             /\ pc'[s] \in {"responded", "served"}
             /\ calls'[s] = 0
             /\ gets'[s] = 0
             /\ got'[s] = NoGet]_vars

\* without user_email in the session, a malformed lookup has been answered
\* with the redirect and the application page request too
C27_Witness ==
    /\ ~session.user_email.some
    /\ pc[1] = "responded"
    /\ reply[1] = LoginRedirect
    /\ arg[1] = Some(<<"-">>)
    /\ \E s \in Slots : pc[s] = "served" /\ reply[s] = LoginRedirect


\* the callback is refused: it carries an error parameter, its token fetch
\* fails, or the fetched email does not end in '@vvisd.org'
Refused(has_error, token_ok, user_info) ==
    has_error \/ ~token_ok \/ ~EndsWithDomain(EmailOf(user_info))

\* C28: a session that contains user_email holds an email ending in
\* '@vvisd.org'; only the callback puts a user_email into the session; and a
\* refused callback returns an error status and leaves the session as it
\* was.
C28_SessionEmailInDomain ==
    /\ [](session.user_email.some => EndsWithDomain(session.user_email.val))
    /\ [](\A e \in BOOLEAN, ok \in BOOLEAN, u \in UserInfos :
             Refused(e, ok, u)
             => /\ callback(session, e, ok, u) = session
                /\ callback_status(e, ok, u) \in {400, 500, 403})
    /\ [][(session'.user_email.some /\ session'.user_email # session.user_email)
          => \E u \in UserInfos :
                /\ ~Refused(FALSE, TRUE, u)
                /\ session' = callback(session, FALSE, TRUE, u)]_vars

\* the session has been logged in with an email of the domain
C28_Witness ==
    /\ session.user_email.some
    /\ EndsWithDomain(session.user_email.val)
    /\ session.user_name.some


\* a request is handled in slot s in this step: a new one, or the one of
\* the slot sent again
Requested(s) ==
    \/ Arrives(s)
    \/ pc[s] = "responded" /\ earlier[s] = NoReply /\ earlier'[s] # NoReply

\* C29: after /logout the session holds neither user_email nor user_name;
\* from then on every request to a protected route is redirected to
\* /login, and the session gets a user_email again only by a callback that
\* succeeds with an email ending in '@vvisd.org'.
C29_LoggedOutUntilCallback ==
    [][/\ logout => (~session'.user_email.some /\ ~session'.user_name.some)
       /\ \A s \in Slots :
             (Requested(s) /\ ~session.user_email.some)
             => reply'[s] = LoginRedirect /\ gets'[s] = 0
       /\ (~session.user_email.some /\ session'.user_email.some)
          => \E u \in UserInfos :
                /\ EndsWithDomain(EmailOf(u))
                /\ callback_status(FALSE, TRUE, u) = 302
                /\ session' = callback(session, FALSE, TRUE, u)]_vars

\* a lookup answered while logged in is sent again after the logout and is
\* redirected
C29_Witness ==
    \E s \in Slots :
        /\ pc[s] = "responded"
        /\ earlier[s] \notin {NoReply, LoginRedirect}
        /\ reply[s] = LoginRedirect
        /\ ~session.user_email.some
        /\ ~session.user_name.some


\* C30: a session acquires user_email only in a callback, and only when
\* /login has stored oauth_state in that session before; a callback in a
\* session without oauth_state does not authenticate it.
C30_LoginBeforeCallback ==
    [][(~session.user_email.some /\ session'.user_email.some)
       => /\ session.oauth_state.some
          /\ \E u \in UserInfos : session' = callback(session, FALSE, TRUE, u)]_vars

====
